---- MODULE Spec2Model ----
(***************************************************************************)
(* m2g_image: CSV of molecules -> grid image(s).                           *)
(*                                                                         *)
(* The model follows two entry points of the package:                      *)
(*   - the CLI command  app.main  (src/src/m2g_image/app.py), which loads  *)
(*     the JSON configuration, resolves every parameter with               *)
(*     resolve_param, reads the table and runs its own page loop over      *)
(*     generate_grid_html;                                                 *)
(*   - the library generator  converter.generate_grid_images, resumed by   *)
(*     its consumer one page at a time.                                    *)
(* Both reach converter.generate_grid_image -> grid_to_image ->            *)
(* screenshot.capture_element_screenshot, modelled by generate_grid_image. *)
(*                                                                         *)
(* Spec         main and generate_grid_images, one page per step.          *)
(* SpecSteps    generate_grid_images with each page taken apart into its   *)
(*              statements, and called again by its caller.                *)
(* SpecDisplay  generate_grid_image's keywords, for any caller keywords.   *)
(* SpecConfig   GridConfig.from_cli_and_config and to_grid_kwargs.         *)
(* SpecCapture  capture_element_screenshot called on its own.              *)
(*                                                                         *)
(* Optional values (Python None / a value) are <<>> and <<v>>.             *)
(* A path is [dir, stem, suffix]: dir a sequence of components (absolute   *)
(* when it starts with "/"), stem a sequence of characters.                *)
(***************************************************************************)
EXTENDS Integers, Sequences, FiniteSets, TLC

\* ---------------------------------------------------------------- bounds
MaxRows == 10
MaxPage == 3
MaxFaults == 1

\* -------------------------------------------------------- Python helpers
None == <<>>
Some(v) == <<v>>
Val(o) == o[1]

Min(a, b) == IF a < b THEN a ELSE b

DigitChars == <<"0", "1", "2", "3", "4", "5", "6", "7", "8", "9">>

\* str(n) for n >= 0: the decimal digits, most significant first.
RECURSIVE Str(_)
Str(n) == IF n < 10 THEN <<DigitChars[n + 1]>>
          ELSE Str(n \div 10) \o <<DigitChars[(n % 10) + 1]>>

\* format(n, "0{w}d"): str(n), left-filled with "0" up to width w.
RECURSIVE ZeroFill(_, _)
ZeroFill(s, w) == IF Len(s) >= w THEN s ELSE ZeroFill(<<"0">> \o s, w)

FormatPage(n, w) == ZeroFill(Str(n), w)

\* df.iloc[start:end] on a table of rows: 0-based, end exclusive, clamped.
Iloc(rows, start, end) == SubSeq(rows, start + 1, Min(end, Len(rows)))

\* ----------------------------------------------------------------- paths
Cwd == <<"/", "work">>

MkPath(d, s, x) == [dir |-> d, stem |-> s, suffix |-> x]

\* A resolve that hands the path back as it was given.
Resolve_AsGiven(p) == p

\* Path.resolve(): an absolute path is kept, a relative one is put under cwd.
Resolve(p) == IF p.dir # <<>> /\ p.dir[1] = "/" THEN p
              ELSE [p EXCEPT !.dir = Cwd \o p.dir]

ResultPng == MkPath(<<>>, <<"r", "e", "s", "u", "l", "t">>, ".png")
GridPng == MkPath(<<"imgs">>, <<"g", "_", "1">>, ".png")
CfgPng == MkPath(<<"cfg">>, <<"c">>, ".png")
OutHtml == MkPath(<<>>, <<"o">>, ".html")
CfgHtml == MkPath(<<"cfg">>, <<"h">>, ".html")
OutDir == <<"out", "deep">>
InCsv == MkPath(<<>>, <<"i", "n">>, ".csv")
CfgCsv == MkPath(<<"cfg">>, <<"i", "n">>, ".csv")

\* tempfile.NamedTemporaryFile(suffix=".html"): a fresh name per call.
TempPath(k) == MkPath(<<"/", "tmp">>, <<"t", "m", "p">> \o Str(k), ".html")

\* ----------------------------------------------------------- file system
\* fs is a set of [path, content]; at most one entry per path.
Exists(f, p) == \E e \in f : e.path = p
Content(f, p) == (CHOOSE e \in f : e.path = p).content
Unlink(f, p) == {e \in f : e.path # p}
\* A write that keeps what the file held, next to the new content.
WriteFile_Keeps(f, p, c) == f \cup {[path |-> p, content |-> c]}

\* open(p, "w") ... write(c): the file is created or truncated, then holds c.
WriteFile(f, p, c) == Unlink(f, p) \cup {[path |-> p, content |-> c]}

Partial == [kind |-> "partial", rows |-> <<>>, css |-> "none"]
NoContent == [kind |-> "none", rows |-> <<>>, css |-> "none"]

\* Every ancestor of directory d, d included: mkdir(parents=True).
Ancestors(d) == {SubSeq(d, 1, k) : k \in 1..Len(d)}

\* ------------------------------------------------ converter / screenshot
DefaultCss == "white"
TransparentCss == "white+transparent"

\* What one page's collaborators may do: the renderer (mols2grid.display and
\* _repr_html_), the HTML write, the browser capture, the unlink of the
\* temporary file.
Outcomes == [render : {"ok", "raise"},
             write : {"ok", "create_fail", "write_fail"},
             capture : {"ok", "element_not_found", "browser_fail"},
             unlink : {"ok", "oserror"}]

\* Keyword arguments are functions from names to values.
Get(d, k, default) == IF k \in DOMAIN d THEN d[k] ELSE default
Pop(d, k) == [x \in DOMAIN d \ {k} |-> d[x]]

\* force_kwargs: the settings imaging needs.
ForceKwargs == ("template" :> "static") @@ ("prerender" :> TRUE)
               @@ ("useSVG" :> TRUE)

\* rdkit's MolDrawOptions(): a fresh options object clears the background.
MolDrawOptions == [clearBackground |-> TRUE, origin |-> "fresh"]

\* The names generate_grid_image passes to mols2grid.display by itself.
DisplayNames == {"size", "pad", "subset", "n_cols", "fontsize",
                 "smiles_col", "custom_css"}

\* is_transparent = kwargs.pop("transparent", False)
IsTransparent(kwargs) == Get(kwargs, "transparent", FALSE)

\* custom_css + transparent_css when transparent
CustomCss(kwargs) ==
    IF IsTransparent(kwargs) THEN TransparentCss ELSE DefaultCss

\* When transparent: the caller's MolDrawOptions, or a fresh one, with
\* clearBackground = False, put back into the keywords.
WithDrawOptions(kwargs) ==
    LET popped == Pop(kwargs, "transparent")
        opts == Get(popped, "MolDrawOptions", MolDrawOptions)
    IN  IF IsTransparent(kwargs)
        THEN ("MolDrawOptions" :> [opts EXCEPT !.clearBackground = FALSE])
             @@ popped
        ELSE popped

\* A merge in which the caller's keywords win.
Merge_CallerWins(kwargs, force) == kwargs @@ force

\* {**kwargs, **force_kwargs}: on a shared name the forced value wins.
Merge(kwargs, force) == force @@ kwargs

\* display_kwargs of generate_grid_image: 'transparent' popped, the drawing
\* options set, the forced settings merged in, border defaulting to "none".
DisplayKwargs(kwargs) ==
    LET merged == Merge(WithDrawOptions(kwargs), ForceKwargs)
    IN  IF "border" \in DOMAIN merged THEN merged
        ELSE merged @@ ("border" :> "none")

\* mols2grid.display(df, size=..., ..., custom_css=custom_css,
\* **display_kwargs): a keyword given twice is a TypeError of the call itself.
Display(kwargs) ==
    LET dk == DisplayKwargs(kwargs)
    IN  IF DOMAIN dk \cap DisplayNames # {}
        THEN [status |-> "TypeError", custom_css |-> "none", kwargs |-> << >>,
              omit_background |-> FALSE]
        ELSE [status |-> "called", custom_css |-> CustomCss(kwargs),
              kwargs |-> dk, omit_background |-> IsTransparent(kwargs)]

\* generate_grid_image, up to the renderable object, for the keywords the
\* page loops pass (smiles_col, transparent), written out: Display on
\* these keywords.  'transparent' is popped; when set, the stylesheet gets
\* the transparent-body override and the drawing options
\* clearBackground=False; template, prerender and useSVG are forced; border
\* defaults to "none".
DisplayCall(rows, kw) ==
    [rows |-> rows,
     smiles_col |-> kw.smiles_col,
     custom_css |-> IF kw.transparent THEN TransparentCss ELSE DefaultCss,
     clearBackground |-> ~kw.transparent,
     template |-> "static", prerender |-> TRUE, useSVG |-> TRUE,
     border |-> "none"]

\* grid._repr_html_(): the page's markup, a function of what was displayed.
ReprHtml(d) == [kind |-> "html", rows |-> d.rows, css |-> d.custom_css]

\* What the browser paints of an HTML file.
Png(html) == [kind |-> "png", rows |-> html.rows, css |-> html.css]

\* A capture that reports success when the element is missing.
capture_element_screenshot_Swallows(f, htmlPath, outPath, cap) ==
    IF ~Exists(f, Resolve(htmlPath))
    THEN [fs |-> f, status |-> "FileNotFoundError", result |-> None,
          browser |-> FALSE,
          omitted |-> FALSE]
    ELSE IF cap = "browser_fail"
    THEN [fs |-> f, status |-> "PlaywrightError", result |-> None,
          browser |-> TRUE,
          omitted |-> FALSE]
    ELSE IF cap = "element_not_found"
    THEN [fs |-> f, status |-> "ok", result |-> Some(Resolve(outPath)),
          browser |-> TRUE,
          omitted |-> FALSE]
    ELSE [fs |-> WriteFile(f, Resolve(outPath),
                           Png(Content(f, Resolve(htmlPath)))),
          status |-> "ok", result |-> Some(Resolve(outPath)),
          browser |-> TRUE,
          omitted |-> FALSE]

\* capture_element_screenshot(html_file_path, output_image_path):
\* FileNotFoundError when the HTML file is absent, RuntimeError when the
\* selector matches nothing, else the element is written to the resolved
\* output path, which is returned.  omit_background arrives in **kwargs and
\* goes no further: locator.screenshot is given the path alone, so the
\* background is never omitted.
capture_element_screenshot(f, htmlPath, outPath, cap) ==
    LET html_file == Resolve(htmlPath)
        output_file == Resolve(outPath)
    IN  IF ~Exists(f, html_file)
        THEN [fs |-> f, status |-> "FileNotFoundError", result |-> None,
              browser |-> FALSE,
          omitted |-> FALSE]
        ELSE IF cap = "browser_fail"
        THEN [fs |-> f, status |-> "PlaywrightError", result |-> None,
              browser |-> TRUE,
          omitted |-> FALSE]
        ELSE IF cap = "element_not_found"
        THEN [fs |-> f, status |-> "RuntimeError", result |-> None,
              browser |-> TRUE,
          omitted |-> FALSE]
        ELSE [fs |-> WriteFile(f, output_file, Png(Content(f, html_file))),
              status |-> "ok", result |-> Some(output_file),
              browser |-> TRUE,
          omitted |-> FALSE]

\* The HTML write of grid_to_image: open(html_path, "w") and write().
WriteHtml(f, p, html, w) ==
    IF w = "create_fail" THEN f
    ELSE IF w = "write_fail" THEN WriteFile(f, p, Partial)
    ELSE WriteFile(f, p, html)

\* A cleanup that removes nothing.
Cleanup_Skips(f, temp_file, html_path, u) == f

\* A cleanup that forgets to ask whether the file is the temporary one.
Cleanup_Unconditional(f, temp_file, html_path, u) ==
    IF u = "oserror" THEN f ELSE Unlink(f, html_path)

\* The finally clause of grid_to_image: the temporary file, and only it, is
\* unlinked; an OSError of the unlink is swallowed.
Cleanup(f, temp_file, html_path, u) ==
    IF temp_file = None THEN f
    ELSE IF u = "oserror" THEN f
    ELSE Unlink(f, html_path)

\* grid_to_image(grid, output_image_path, intermediate_html_path): the HTML
\* goes to the resolved intermediate path when one is given, else to a fresh
\* temporary file; the write is outside the try, the capture inside it.
grid_to_image(f, k, html, outPath, htmlPath, o) ==
    LET temp_file == IF htmlPath # None THEN None ELSE Some(TempPath(k))
        html_path == IF htmlPath # None THEN Resolve(Val(htmlPath))
                     ELSE TempPath(k)
        written == WriteHtml(f, html_path, html, o.write)
        cap == capture_element_screenshot(written, html_path, outPath, o.capture)
    IN  IF o.write # "ok"
        THEN [fs |-> written, status |-> "OSError", result |-> None,
              temp |-> temp_file, unlink |-> "none", browser |-> FALSE,
              omitted |-> FALSE]
        ELSE [fs |-> Cleanup(cap.fs, temp_file, html_path, o.unlink),
              status |-> cap.status, result |-> cap.result,
              temp |-> temp_file,
              unlink |-> IF temp_file = None THEN "none" ELSE o.unlink,
              browser |-> cap.browser, omitted |-> cap.omitted]

\* generate_grid_image(df, output_image_path, output_html_path, **kwargs):
\* one page, from its rows to its image.  kw carries smiles_col, transparent
\* and output_html_path.  The result is the page's record in the call log
\* together with the file system it leaves; omit_background is what is
\* passed to grid_to_image, omitted what the screenshot was taken with.
generate_grid_image(f, k, page, rows, outPath, kw, o) ==
    LET d == DisplayCall(rows, kw)
        html == ReprHtml(d)
        g == grid_to_image(f, k, html, outPath, kw.output_html_path, o)
        base == [page |-> page, rows |-> rows, path |-> outPath,
                 html_path |-> kw.output_html_path,
                 transparent |-> kw.transparent, display |-> d,
                 omit_background |-> kw.transparent]
    IN  IF o.render = "raise"
        THEN [fs |-> f,
              call |-> base @@ [html |-> NoContent, status |-> "RenderError",
                                result |-> None, temp |-> None,
                                unlink |-> "none", browser |-> FALSE,
                                omitted |-> FALSE]]
        ELSE [fs |-> g.fs,
              call |-> base @@ [html |-> html, status |-> g.status,
                                result |-> g.result, temp |-> g.temp,
                                unlink |-> g.unlink, browser |-> g.browser,
                                omitted |-> g.omitted]]

\* --------------------------------------------------------- configuration
\* resolve_param(cli_val, config_val, default): CLI > config > default,
\* where None is the only value that counts as "not given".
resolve_param(cli_val, config_val, default) ==
    IF cli_val # None THEN cli_val
    ELSE IF config_val # None THEN config_val
    ELSE default

\* The keys of the JSON configuration that main reads, each absent (None,
\* what file_config.get returns) or set.
EmptyCfg == [input_csv |-> None, output_image |-> None, output_html |-> None,
             output_dir |-> None, smiles_col |-> None,
             n_items_per_page |-> None, transparent |-> None]

CfgObjects ==
    {EmptyCfg,
     [EmptyCfg EXCEPT !.input_csv = Some(CfgCsv)],
     [EmptyCfg EXCEPT !.output_image = Some(CfgPng)],
     [EmptyCfg EXCEPT !.output_html = Some(CfgHtml)],
     [EmptyCfg EXCEPT !.output_dir = Some(<<"cfgout">>)],
     [EmptyCfg EXCEPT !.smiles_col = Some("smi")],
     [EmptyCfg EXCEPT !.n_items_per_page = Some(2)],
     [EmptyCfg EXCEPT !.transparent = Some(TRUE)],
     [EmptyCfg EXCEPT !.transparent = Some(FALSE)],
     [EmptyCfg EXCEPT !.input_csv = Some(CfgCsv), !.transparent = Some(TRUE),
                      !.n_items_per_page = Some(1)]}

\* What the file named by --config may hold.
CfgFiles == {[kind |-> "missing", obj |-> EmptyCfg],
             [kind |-> "malformed", obj |-> EmptyCfg],
             [kind |-> "nonobject", obj |-> EmptyCfg]}
            \cup {[kind |-> "object", obj |-> c] : c \in CfgObjects}

PageSizes == {None} \cup {Some(n) : n \in -1..MaxPage}

\* The command line: -c, the positional input, -o, -oh, -od, -sc, -p, -t.
\* An option that is not given is None; the -t flag is a bool, False when
\* not given.
NoCli == [config |-> FALSE, input_csv |-> None, output_image |-> None,
          output_html |-> None, output_dir |-> None, smiles_col |-> None,
          n_items_per_page |-> None, transparent |-> FALSE]

CliArgs == [config : BOOLEAN,
            input_csv : {Some(InCsv)},
            output_image : {None},
            output_html : {None, Some(OutHtml)},
            output_dir : {None},
            smiles_col : {None},
            n_items_per_page : PageSizes,
            transparent : BOOLEAN]
           \cup {[NoCli EXCEPT !.config = TRUE],
                 [NoCli EXCEPT !.input_csv = Some(InCsv),
                               !.output_dir = Some(OutDir)],
                 [NoCli EXCEPT !.config = TRUE, !.input_csv = Some(InCsv),
                               !.output_image = Some(GridPng),
                               !.output_dir = Some(OutDir),
                               !.smiles_col = Some("SMILES"),
                               !.n_items_per_page = Some(MaxPage)]}

\* The tables pd.read_csv may return: n rows, numbered in file order, under
\* one of the column sets.
Rows(n) == [k \in 1..n |-> k]
ColumnSets == {{"smiles", "ccd"}, {"id", "name"}}

\* ----------------------------------------------------------------- state
VARIABLES
    entry,      \* "main": the CLI command; "api": generate_grid_images
    pc,         \* where the run is
    cli,        \* the command line (main)
    file_config,\* the loaded configuration file (main)
    final,      \* the resolved parameters (main) / the call's arguments (api)
    df,         \* the table: [rows, columns]
    loop,       \* total_rows, chunk_size, num_chunks, padding_width, i
    calls,      \* one record per generate_grid_image call, in order
    yields,     \* what the generator handed to its consumer, in order
    fs,         \* the files on disk
    dirs,       \* the directories made by the run
    tmp,        \* temporary names handed out so far
    faults,     \* swallowed unlink failures so far
    exit_code,  \* -1 while running, then the process's exit code
    err,        \* the error that ended the run: [type, said]
    echoed,     \* what typer.echo printed: a set of message names
    unit,       \* one function called on its own: [fn, args, out, done]
    step        \* the page in progress, statement by statement ("steps")

vars == <<entry, pc, cli, file_config, final, df, loop, calls, yields, fs,
          dirs, tmp, faults, exit_code, err, echoed, unit, step>>

NoErr == [type |-> "none", said |-> {}]
NoLoop == [total_rows |-> 0, chunk_size |-> 0, num_chunks |-> 0,
           padding_width |-> 0, i |-> 0]
NoFinal == [input_csv |-> None, output_image |-> ResultPng,
            output_html |-> None, output_dir |-> None,
            smiles_col |-> "smiles", n_items_per_page |-> None,
            transparent |-> FALSE]
NoDf == [rows |-> <<>>, columns |-> {}]
NoUnit == [fn |-> "none", args |-> <<>>, out |-> <<>>, done |-> FALSE]
NoStep == [at |-> "idle", call |-> 0, requests |-> 0, page |-> 0,
           rows |-> <<>>, path |-> ResultPng, html |-> NoContent,
           html_path |-> ResultPng, temp |-> None, status |-> "none",
           result |-> None, unlink |-> "none", omitted |-> FALSE,
           sessions |-> {}]

\* ----------------------------------------------------------- partitioner
\* n_items_per_page if (n_items_per_page and n_items_per_page > 0) else total
ChunkSize(n, total_rows) ==
    IF n # None /\ Val(n) # 0 /\ Val(n) > 0 THEN Val(n) ELSE total_rows

\* A page count that rounds down.
NumChunks_Floor(total_rows, chunk_size) == total_rows \div chunk_size

\* (total_rows + chunk_size - 1) // chunk_size, for chunk_size > 0
NumChunks(total_rows, chunk_size) ==
    (total_rows + chunk_size - 1) \div chunk_size

\* A page suffix that is never padded.
PaddingWidth_Unpadded(num_chunks) == 1

\* len(str(num_chunks))
PaddingWidth(num_chunks) == Len(Str(num_chunks))

\* A slice that starts one row late.
SliceStart_Late(i, chunk_size) == i * chunk_size + 1

SliceStart(i, chunk_size) == i * chunk_size
SliceEnd(i, chunk_size, total_rows) == Min((i + 1) * chunk_size, total_rows)

\* The output path of the 0-based page i:
\* parent / f"{stem}_{i + 1:0{padding_width}d}{suffix}" when there are
\* several pages, the output path itself when there is one.
PagePath(output_path, i, num_chunks, padding_width) ==
    IF num_chunks > 1
    THEN [dir |-> output_path.dir,
          stem |-> output_path.stem \o <<"_">>
                   \o FormatPage(i + 1, padding_width),
          suffix |-> output_path.suffix]
    ELSE output_path

\* The keywords both entry points hand to generate_grid_image.
PageKwargs(fin, grid_transparent) ==
    [smiles_col |-> fin.smiles_col,
     output_html_path |-> fin.output_html,
     transparent |-> grid_transparent]

\* One pass of the page loop body, shared by main and generate_grid_images.
PageStep(o) ==
    LET i == loop.i
        rows == Iloc(df.rows, SliceStart(i, loop.chunk_size),
                     SliceEnd(i, loop.chunk_size, loop.total_rows))
        path == PagePath(final.output_image, i, loop.num_chunks,
                         loop.padding_width)
    IN  generate_grid_image(fs, tmp + 1, i + 1, rows, path,
                            PageKwargs(final, final.transparent), o)

\* An outcome the bounds allow: at most MaxFaults swallowed unlink failures.
\* The renderer cannot draw a table that lacks the structure column.
Allowed(o) ==
    /\ o.unlink = "oserror" => faults < MaxFaults
    /\ final.smiles_col \notin df.columns => o.render = "raise"
    \* of the outcomes that differ only in a step the page never reaches,
    \* one is kept
    /\ o.render = "raise" => o.write = "ok"
    /\ o.write # "ok" => o.capture = "ok"
    /\ (o.render = "raise" \/ o.write # "ok" \/ final.output_html # None)
          => o.unlink = "ok"

UsesTemp(r) == r.call.temp # None
Swallowed(r) == r.call.unlink = "oserror"

\* ------------------------------------------------------------------ main
Exit(code, type, said, echo) ==
    /\ pc' = "exit"
    /\ exit_code' = code
    /\ err' = [type |-> type, said |-> said]
    /\ echoed' = echoed \cup echo

\* app.main, step 1: load the configuration named by --config.
MainLoadConfig ==
    /\ entry = "main" /\ pc = "start"
    /\ IF ~cli.config
       THEN /\ file_config' = [kind |-> "object", obj |-> EmptyCfg]
            /\ pc' = "resolve"
            /\ UNCHANGED <<exit_code, err, echoed>>
       ELSE \E c \in CfgFiles :
            /\ file_config' = c
            /\ CASE c.kind = "missing" ->
                      Exit(1, "Exit", {"Config file", "does not exist"},
                           {"error"})
                 [] c.kind = "malformed" ->
                      Exit(1, "JSONDecodeError", {"Expecting"}, {})
                 [] OTHER ->
                      /\ pc' = "resolve"
                      /\ UNCHANGED <<exit_code, err, echoed>>
    /\ UNCHANGED <<unit, step>>
    /\ UNCHANGED <<entry, cli, final, df, loop, calls, yields, fs, dirs,
                   tmp, faults>>

\* Path(file_config.get(k)) if file_config.get(k) else None
\* str(v) if v else None
\* and the resolution of every parameter, in the order of main.
Resolved(c, cfg) ==
    [input_csv |-> resolve_param(c.input_csv, cfg.input_csv, None),
     output_dir |-> resolve_param(c.output_dir, cfg.output_dir, None),
     output_image |->
        Val(resolve_param(c.output_image, cfg.output_image, Some(ResultPng))),
     output_html |-> resolve_param(c.output_html, cfg.output_html, None),
     smiles_col |->
        Val(resolve_param(c.smiles_col, cfg.smiles_col, Some("smiles"))),
     n_items_per_page |->
        resolve_param(c.n_items_per_page, cfg.n_items_per_page, None),
     transparent |->
        Val(resolve_param(Some(c.transparent), cfg.transparent, Some(FALSE)))]

\* A relocation that keeps the image's own directories under the new one.
Relocate_KeepsPath(r) ==
    IF r.output_dir # None
    THEN [r EXCEPT !.output_image =
                      [@ EXCEPT !.dir = Val(r.output_dir) \o @]]
    ELSE r

\* With an output directory, the image keeps its file name only.
Relocate(r) ==
    IF r.output_dir # None
    THEN [r EXCEPT !.output_image = [@ EXCEPT !.dir = Val(r.output_dir)]]
    ELSE r

\* app.main, step 2: resolve the parameters; the input must be named and
\* must exist; the output directory is made.
MainResolve ==
    /\ entry = "main" /\ pc = "resolve"
    /\ IF file_config.kind # "object"
       THEN /\ Exit(1, "AttributeError", {"has no attribute 'get'"}, {})
            /\ UNCHANGED <<final, dirs>>
       ELSE LET r == Resolved(cli, file_config.obj) IN
            IF r.input_csv = None
            THEN /\ Exit(1, "Exit", {"input_csv must be provided"}, {"error"})
                 /\ UNCHANGED <<final, dirs>>
            ELSE \E input_exists \in BOOLEAN :
                 IF ~input_exists
                 THEN /\ Exit(1, "Exit", {"Input file", "does not exist"},
                              {"error"})
                      /\ UNCHANGED <<final, dirs>>
                 ELSE /\ final' = Relocate(r)
                      /\ dirs' = IF r.output_dir # None
                                 THEN dirs \cup Ancestors(Val(r.output_dir))
                                 ELSE dirs
                      /\ pc' = "load"
                      /\ UNCHANGED <<exit_code, err, echoed>>
    /\ UNCHANGED <<unit, step>>
    /\ UNCHANGED <<entry, cli, file_config, df, loop, calls, yields, fs,
                   tmp, faults>>

\* app.main, step 3: read the table and set up the page loop.  With no rows
\* and no positive page size the chunk size is 0 and the division raises.
MainLoadData ==
    /\ entry = "main" /\ pc = "load"
    /\ \E parsed \in BOOLEAN, n \in 0..MaxRows, cols \in ColumnSets :
       IF ~parsed
       THEN /\ Exit(1, "ParserError", {"Error tokenizing data"}, {"loading"})
            /\ UNCHANGED <<df, loop>>
       ELSE LET chunk_size == ChunkSize(final.n_items_per_page, n) IN
            /\ df' = [rows |-> Rows(n), columns |-> cols]
            /\ IF chunk_size = 0
               THEN /\ Exit(1, "ZeroDivisionError", {"division by zero"},
                            {"loading", "generating"})
                    /\ loop' = [NoLoop EXCEPT !.total_rows = n]
               ELSE LET num_chunks == NumChunks(n, chunk_size) IN
                    /\ loop' = [total_rows |-> n,
                                chunk_size |-> chunk_size,
                                num_chunks |-> IF num_chunks = 0 THEN 1
                                               ELSE num_chunks,
                                padding_width |-> PaddingWidth(num_chunks),
                                i |-> 0]
                    /\ pc' = "pages"
                    /\ echoed' = echoed \cup {"loading", "generating"}
                    /\ UNCHANGED <<exit_code, err>>
    /\ UNCHANGED <<unit, step>>
    /\ UNCHANGED <<entry, cli, file_config, final, calls, yields, fs, dirs,
                   tmp, faults>>

\* What a failed page says: the collaborator's own message.
PageSaid(c) ==
    CASE c.status = "RenderError" -> {c.display.smiles_col}
      [] c.status = "RuntimeError" -> {"Element not found"}
      [] c.status = "FileNotFoundError" -> {"HTML file not found"}
      [] OTHER -> {}

\* app.main, the loop body: one page through generate_grid_html; an
\* exception of the page ends the command.
MainPage ==
    /\ entry = "main" /\ pc = "pages" /\ loop.i < loop.num_chunks
    /\ \E o \in Outcomes :
       LET r == PageStep(o) IN
       /\ Allowed(o)
       /\ fs' = r.fs
       /\ calls' = Append(calls, r.call)
       /\ tmp' = IF UsesTemp(r) THEN tmp + 1 ELSE tmp
       /\ faults' = IF Swallowed(r) THEN faults + 1 ELSE faults
       /\ IF r.call.status = "ok"
          THEN /\ loop' = [loop EXCEPT !.i = @ + 1]
               /\ UNCHANGED <<pc, exit_code, err, echoed>>
          ELSE /\ Exit(1, r.call.status, PageSaid(r.call), {})
               /\ UNCHANGED loop
    /\ UNCHANGED <<unit, step>>
    /\ UNCHANGED <<entry, cli, file_config, final, df, yields, dirs>>

\* app.main, after the last page: the command returns.
MainDone ==
    /\ entry = "main" /\ pc = "pages" /\ loop.i = loop.num_chunks
    /\ Exit(0, "none", {}, {})
    /\ UNCHANGED <<unit, step>>
    /\ UNCHANGED <<entry, cli, file_config, final, df, loop, calls, yields,
                   fs, dirs, tmp, faults>>

\* -------------------------------------------------- generate_grid_images
\* The generator's first resumption runs its prologue: no rows, no pages.
Prologue ==
    LET total_rows == Len(df.rows)
        chunk_size == ChunkSize(final.n_items_per_page, total_rows)
        num_chunks == NumChunks(total_rows, chunk_size)
    IN  [total_rows |-> total_rows, chunk_size |-> chunk_size,
         num_chunks |-> num_chunks,
         padding_width |-> PaddingWidth(num_chunks), i |-> 0]

\* next() on a generator that has not started: the prologue, then the first
\* page up to its yield; on an empty table the generator returns at once.
ApiFirst ==
    /\ entry = "api" /\ pc = "created"
    /\ IF Len(df.rows) = 0
       THEN /\ pc' = "finished"
            /\ UNCHANGED <<loop, calls, yields, fs, tmp, faults, err>>
       ELSE \E o \in Outcomes :
            /\ Allowed(o)
            /\ LET lp == Prologue
                   rows == Iloc(df.rows, SliceStart(0, lp.chunk_size),
                                SliceEnd(0, lp.chunk_size, lp.total_rows))
                   path == PagePath(final.output_image, 0, lp.num_chunks,
                                    lp.padding_width)
                   r == generate_grid_image(fs, tmp + 1, 1, rows, path,
                            PageKwargs(final, final.transparent), o)
               IN  /\ fs' = r.fs
                   /\ calls' = Append(calls, r.call)
                   /\ tmp' = IF UsesTemp(r) THEN tmp + 1 ELSE tmp
                   /\ faults' = IF Swallowed(r) THEN faults + 1 ELSE faults
                   /\ IF r.call.status = "ok"
                      THEN /\ loop' = lp
                           /\ yields' = Append(yields, <<1, r.call.result>>)
                           /\ pc' = "suspended"
                           /\ UNCHANGED err
                      ELSE /\ loop' = lp
                           /\ pc' = "raised"
                           /\ err' = [type |-> r.call.status,
                                      said |-> PageSaid(r.call)]
                           /\ UNCHANGED yields
    /\ UNCHANGED <<unit, step>>
    /\ UNCHANGED <<entry, cli, file_config, final, df, dirs, exit_code,
                   echoed>>

\* next() on a generator suspended at its yield: the loop moves on to the
\* next page, or ends.
ApiNext ==
    /\ entry = "api" /\ pc = "suspended"
    /\ IF loop.i + 1 >= loop.num_chunks
       THEN /\ pc' = "finished"
            /\ loop' = [loop EXCEPT !.i = @ + 1]
            /\ UNCHANGED <<calls, yields, fs, tmp, faults, err>>
       ELSE \E o \in Outcomes :
            /\ Allowed(o)
            /\ LET i == loop.i + 1
                   rows == Iloc(df.rows, SliceStart(i, loop.chunk_size),
                                SliceEnd(i, loop.chunk_size, loop.total_rows))
                   path == PagePath(final.output_image, i, loop.num_chunks,
                                    loop.padding_width)
                   r == generate_grid_image(fs, tmp + 1, i + 1, rows, path,
                            PageKwargs(final, final.transparent), o)
               IN  /\ fs' = r.fs
                   /\ calls' = Append(calls, r.call)
                   /\ tmp' = IF UsesTemp(r) THEN tmp + 1 ELSE tmp
                   /\ faults' = IF Swallowed(r) THEN faults + 1 ELSE faults
                   /\ loop' = [loop EXCEPT !.i = i]
                   /\ IF r.call.status = "ok"
                      THEN /\ yields' = Append(yields,
                                               <<i + 1, r.call.result>>)
                           /\ UNCHANGED <<pc, err>>
                      ELSE /\ pc' = "raised"
                           /\ err' = [type |-> r.call.status,
                                      said |-> PageSaid(r.call)]
                           /\ UNCHANGED yields
    /\ UNCHANGED <<unit, step>>
    /\ UNCHANGED <<entry, cli, file_config, final, df, dirs, exit_code,
                   echoed>>

\* The consumer drops the generator before it is exhausted.
ApiClose ==
    /\ entry = "api" /\ pc \in {"created", "suspended"}
    /\ pc' = "closed"
    /\ UNCHANGED <<unit, step>>
    /\ UNCHANGED <<entry, cli, file_config, final, df, loop, calls, yields,
                   fs, dirs, tmp, faults, exit_code, err, echoed>>

\* --------------------------------------------------------- specification
ApiArgs == {[NoFinal EXCEPT !.output_image = img, !.output_html = h,
                            !.n_items_per_page = n, !.transparent = t] :
            img \in {ResultPng, GridPng}, h \in {None, Some(OutHtml)},
            n \in PageSizes, t \in BOOLEAN}

InitCommon ==
    /\ loop = NoLoop /\ calls = <<>> /\ yields = <<>>
    /\ fs = {} /\ dirs = {} /\ tmp = 0 /\ faults = 0
    /\ exit_code = -1 /\ err = NoErr /\ echoed = {}
    /\ file_config = [kind |-> "object", obj |-> EmptyCfg]
    /\ unit = NoUnit /\ step = NoStep

InitMain ==
    /\ entry = "main" /\ pc = "start"
    /\ cli \in CliArgs
    /\ final = NoFinal /\ df = NoDf
    /\ InitCommon

InitApi ==
    /\ entry = "api" /\ pc = "created"
    /\ cli = NoCli
    /\ final \in ApiArgs
    /\ \E n \in 0..MaxRows, cols \in ColumnSets :
          df = [rows |-> Rows(n), columns |-> cols]
    /\ InitCommon

Init == InitMain \/ InitApi

Next ==
    \/ MainLoadConfig
    \/ MainResolve
    \/ MainLoadData
    \/ MainPage
    \/ MainDone
    \/ ApiFirst
    \/ ApiNext
    \/ ApiClose

Spec == Init /\ [][Next]_vars

\* ------------------------------------- generate_grid_image's keywords
\* Everything but the function under call, at rest.
AtRest ==
    /\ cli = NoCli /\ file_config = [kind |-> "object", obj |-> EmptyCfg]
    /\ final = NoFinal /\ df = NoDf /\ loop = NoLoop
    /\ calls = <<>> /\ yields = <<>> /\ dirs = {} /\ tmp = 0 /\ faults = 0
    /\ exit_code = -1 /\ err = NoErr /\ echoed = {} /\ step = NoStep

\* A dictionary from a record of optional entries: the given ones.
Dict(ch) == [k \in {x \in DOMAIN ch : ch[x] # None} |-> Val(ch[k])]

\* The **kwargs a caller may give generate_grid_image; each name given or
\* not.
CallerKwargs ==
    {Dict(ch) : ch \in
        [template : {None, Some("interactive"), Some("static")},
         prerender : {None, Some(FALSE)},
         useSVG : {None, Some(FALSE)},
         border : {None, Some("1px solid")},
         sort_by : {None, Some("SMILES")},
         transparent : {None, Some(TRUE), Some(FALSE)},
         MolDrawOptions : {None, Some([clearBackground |-> TRUE,
                                       origin |-> "caller"])},
         size : {None, Some("200x200")}]}

InitDisplay ==
    /\ entry = "unit" /\ pc = "call" /\ fs = {}
    /\ \E kw \in CallerKwargs :
          unit = [fn |-> "generate_grid_image", args |-> kw, out |-> <<>>,
                  done |-> FALSE]
    /\ AtRest

\* generate_grid_image up to its call of mols2grid.display.
DisplayStep ==
    /\ entry = "unit" /\ unit.fn = "generate_grid_image" /\ ~unit.done
    /\ unit' = [unit EXCEPT !.out = Display(unit.args), !.done = TRUE]
    /\ pc' = "returned"
    /\ UNCHANGED <<entry, cli, file_config, final, df, loop, calls, yields,
                   fs, dirs, tmp, faults, exit_code, err, echoed, step>>

SpecDisplay == InitDisplay /\ [][DisplayStep]_vars

\* ------------------------- generate_grid_images, statement by statement
\* The same generator, with each page taken apart into the statements of
\* generate_grid_image, grid_to_image and capture_element_screenshot, and
\* with the caller free to call generate_grid_images again.
MaxCalls == 2
StepRows == 3

StepArgs == {[NoFinal EXCEPT !.output_html = h, !.n_items_per_page = n] :
             h \in {None, Some(OutHtml)},
             n \in {None} \cup {Some(k) : k \in 1..(StepRows - 1)}}

InitSteps ==
    /\ entry = "steps" /\ pc = "created"
    /\ cli = NoCli /\ file_config = [kind |-> "object", obj |-> EmptyCfg]
    /\ final \in StepArgs
    /\ \E n \in 0..StepRows : df = [rows |-> Rows(n), columns |-> {"smiles"}]
    /\ loop = NoLoop /\ calls = <<>> /\ yields = <<>>
    /\ fs = {} /\ dirs = {} /\ tmp = 0 /\ faults = 0
    /\ exit_code = -1 /\ err = NoErr /\ echoed = {}
    /\ unit = NoUnit /\ step = [NoStep EXCEPT !.call = 1]

\* A generator that takes up where the last one stopped.
FirstIndex_Carried == loop.i

\* for i in range(num_chunks): a new generator starts at i = 0.
FirstIndex == 0

\* The record of the page in progress, for the call log.
StepRecord(status, result, temp, unlink, browser) ==
    [page |-> step.page, rows |-> step.rows, path |-> step.path,
     html_path |-> final.output_html, transparent |-> final.transparent,
     display |-> DisplayCall(step.rows, PageKwargs(final, final.transparent)),
     omit_background |-> final.transparent, omitted |-> step.omitted,
     html |-> step.html, status |-> status, result |-> result,
     temp |-> temp, unlink |-> unlink, browser |-> browser]

\* generate_grid_image has returned or raised: the generator yields
\* (i + 1, result) and is suspended, or the exception leaves it.
StepsEnd(c) ==
    /\ calls' = Append(calls, c)
    /\ IF c.status = "ok"
       THEN /\ yields' = Append(yields, <<c.page, c.result>>)
            /\ pc' = "suspended"
            /\ UNCHANGED err
       ELSE /\ pc' = "raised"
            /\ err' = [type |-> c.status, said |-> PageSaid(c)]
            /\ UNCHANGED yields

\* next(): the prologue on the first resumption, then the loop head: the
\* next page's rows and path, or the end of the generator.
StepsNext ==
    /\ entry = "steps" /\ pc \in {"created", "suspended"}
    /\ LET lp == IF pc = "created" THEN [Prologue EXCEPT !.i = FirstIndex]
                 ELSE [loop EXCEPT !.i = @ + 1]
           more == IF Len(df.rows) = 0 THEN FALSE ELSE lp.i < lp.num_chunks
       IN  IF ~more
           THEN /\ pc' = "finished"
                /\ loop' = IF Len(df.rows) = 0 THEN loop ELSE lp
                /\ step' = [step EXCEPT !.requests = @ + 1]
           ELSE /\ pc' = "running"
                /\ loop' = lp
                /\ step' = [step EXCEPT
                      !.requests = @ + 1, !.at = "display",
                      !.page = lp.i + 1,
                      !.rows = Iloc(df.rows, SliceStart(lp.i, lp.chunk_size),
                                    SliceEnd(lp.i, lp.chunk_size,
                                             lp.total_rows)),
                      !.path = PagePath(final.output_image, lp.i,
                                        lp.num_chunks, lp.padding_width),
                      !.html = NoContent, !.html_path = ResultPng,
                      !.temp = None, !.status = "none", !.result = None,
                      !.unlink = "none", !.omitted = FALSE]
    /\ UNCHANGED <<entry, cli, file_config, final, df, calls, yields, fs,
                   dirs, tmp, faults, exit_code, err, echoed, unit>>

\* mols2grid.display(...) and grid._repr_html_().
StepsDisplay ==
    /\ entry = "steps" /\ step.at = "display"
    /\ \E r \in {"ok", "raise"} :
       IF r = "ok"
       THEN /\ step' = [step EXCEPT
                  !.at = "write",
                  !.html = ReprHtml(DisplayCall(step.rows,
                               PageKwargs(final, final.transparent)))]
            /\ UNCHANGED <<pc, calls, yields, err>>
       ELSE /\ StepsEnd(StepRecord("RenderError", None, None, "none", FALSE))
            /\ step' = [step EXCEPT !.at = "idle"]
    /\ UNCHANGED <<entry, cli, file_config, final, df, loop, fs, dirs, tmp,
                   faults, exit_code, echoed, unit>>

\* grid_to_image, before the try: the HTML goes to the intermediate path or
\* to a fresh temporary file.
StepsWrite ==
    /\ entry = "steps" /\ step.at = "write"
    /\ \E w \in {"ok", "create_fail", "write_fail"} :
       LET temp_file == IF final.output_html # None THEN None
                        ELSE Some(TempPath(tmp + 1))
           html_path == IF final.output_html # None
                        THEN Resolve(Val(final.output_html))
                        ELSE TempPath(tmp + 1)
       IN  /\ fs' = WriteHtml(fs, html_path, step.html, w)
           /\ tmp' = IF temp_file # None THEN tmp + 1 ELSE tmp
           /\ IF w = "ok"
              THEN /\ step' = [step EXCEPT !.at = "launch",
                                           !.temp = temp_file,
                                           !.html_path = html_path]
                   /\ UNCHANGED <<pc, calls, yields, err>>
              ELSE /\ StepsEnd(StepRecord("OSError", None, temp_file, "none",
                                          FALSE))
                   /\ step' = [step EXCEPT !.at = "idle", !.temp = temp_file,
                                           !.html_path = html_path]
    /\ UNCHANGED <<entry, cli, file_config, final, df, loop, dirs, faults,
                   exit_code, echoed, unit>>

\* capture_element_screenshot, up to the browser: the HTML file must exist,
\* then chromium is launched.
StepsLaunch ==
    /\ entry = "steps" /\ step.at = "launch"
    /\ IF ~Exists(fs, Resolve(step.html_path))
       THEN step' = [step EXCEPT !.at = "finally",
                                 !.status = "FileNotFoundError"]
       ELSE step' = [step EXCEPT !.at = "shoot",
                                 !.sessions = @ \cup {step.page}]
    /\ UNCHANGED <<entry, pc, cli, file_config, final, df, loop, calls,
                   yields, fs, dirs, tmp, faults, exit_code, err, echoed,
                   unit>>

\* capture_element_screenshot, in the browser: goto, locator, screenshot;
\* browser.close() on its two exits, the playwright context on an exception.
StepsShoot ==
    /\ entry = "steps" /\ step.at = "shoot"
    /\ \E cap \in {"ok", "element_not_found", "browser_fail"} :
       LET r == capture_element_screenshot(fs, step.html_path, step.path, cap)
       IN  /\ fs' = r.fs
           /\ step' = [step EXCEPT !.at = "finally", !.status = r.status,
                                   !.result = r.result,
                                   !.omitted = r.omitted,
                                   !.sessions = @ \ {step.page}]
    /\ UNCHANGED <<entry, pc, cli, file_config, final, df, loop, calls,
                   yields, dirs, tmp, faults, exit_code, err, echoed, unit>>

\* grid_to_image's finally, then the return or the exception.
StepsFinally ==
    /\ entry = "steps" /\ step.at = "finally"
    /\ \E u \in {"ok", "oserror"} :
       /\ u = "oserror" => (step.temp # None /\ faults < MaxFaults)
       /\ fs' = Cleanup(fs, step.temp, step.html_path, u)
       /\ faults' = IF u = "oserror" THEN faults + 1 ELSE faults
       /\ StepsEnd(StepRecord(step.status, step.result, step.temp,
                              IF step.temp = None THEN "none" ELSE u,
                              step.status # "FileNotFoundError"))
       /\ step' = [step EXCEPT !.at = "idle",
                     !.unlink = IF step.temp = None THEN "none" ELSE u]
    /\ UNCHANGED <<entry, cli, file_config, final, df, loop, dirs, tmp,
                   exit_code, echoed, unit>>

\* The consumer drops the generator before it is exhausted.
StepsClose ==
    /\ entry = "steps" /\ pc \in {"created", "suspended"}
    /\ pc' = "closed"
    /\ UNCHANGED <<entry, cli, file_config, final, df, loop, calls, yields,
                   fs, dirs, tmp, faults, exit_code, err, echoed, unit, step>>

\* The caller calls generate_grid_images again with the same arguments: a
\* new generator, not started; the disk is as the earlier call left it.
StepsAgain ==
    /\ entry = "steps" /\ pc \in {"finished", "raised", "closed"}
    /\ step.call < MaxCalls
    /\ pc' = "created"
    /\ calls' = <<>> /\ yields' = <<>> /\ err' = NoErr
    /\ step' = [step EXCEPT !.call = @ + 1, !.requests = 0]
    /\ UNCHANGED <<entry, cli, file_config, final, df, loop, fs, dirs, tmp,
                   faults, exit_code, echoed, unit>>

NextSteps ==
    \/ StepsNext
    \/ StepsDisplay
    \/ StepsWrite
    \/ StepsLaunch
    \/ StepsShoot
    \/ StepsFinally
    \/ StepsClose
    \/ StepsAgain

SpecSteps == InitSteps /\ [][NextSteps]_vars

\* ------------------------------------------------------------- GridConfig
\* The dataclass's fields, in declaration order.
FieldOrder == <<"output_image", "output_html", "output_dir", "smiles_col",
                "n_cols", "cell_width", "cell_height", "fontsize", "subset",
                "sort_by", "remove_hs", "use_coords", "coord_gen", "border",
                "gap", "fontfamily", "text_align", "n_items_per_page",
                "transparent">>
FieldNames == {FieldOrder[n] : n \in DOMAIN FieldOrder}

\* A str and the Path made of it.
StrValue(text) == [type |-> "str", text |-> text]
PathValue(text) == [type |-> "Path", text |-> text]

\* The defaults of the dataclass; a field holds None or a value.
GridConfigDefaults ==
    [output_image |-> Some(PathValue("result.png")),
     output_html |-> None, output_dir |-> None,
     smiles_col |-> Some("smiles"), n_cols |-> Some(5),
     cell_width |-> Some(150), cell_height |-> Some(150),
     fontsize |-> Some(12), subset |-> None,
     sort_by |-> None, remove_hs |-> None, use_coords |-> None,
     coord_gen |-> None, border |-> None, gap |-> None,
     fontfamily |-> None, text_align |-> None,
     n_items_per_page |-> None, transparent |-> Some(FALSE)]

GridKwargFields == {"sort_by", "remove_hs", "use_coords", "coord_gen",
                    "border", "gap", "fontfamily", "text_align"}

\* A naming that leaves every field name as it is.
KwargName_Same(field_name) == field_name

\* _GRID_KWARG_NAMES.get(field_name, field_name)
KwargName(field_name) ==
    CASE field_name = "remove_hs" -> "removeHs"
      [] field_name = "coord_gen" -> "coordGen"
      [] OTHER -> field_name

\* if self.transparent
Truthy(v) == v # None /\ Val(v) = TRUE

\* GridConfig.to_grid_kwargs
to_grid_kwargs(config) ==
    LET present == {f \in GridKwargFields : config[f] # None}
        result == [k \in {KwargName(f) : f \in present} |->
                      Val(config[CHOOSE f \in present : KwargName(f) = k])]
    IN  IF Truthy(config["transparent"])
        THEN ("transparent" :> TRUE) @@ result
        ELSE result

PathFields == {"output_image", "output_html", "output_dir"}

\* _coerce_value(field_name, value)
CoerceValue(field_name, value) ==
    IF field_name \in PathFields /\ value.type = "str"
    THEN PathValue(value.text)
    ELSE value

\* Unknown keys that count input_csv in.
UnknownKeys_NoExtra(file_cfg) == DOMAIN file_cfg \ FieldNames

\* set(file_config.keys()) - field_names - _KNOWN_EXTRA_KEYS
UnknownKeys(file_cfg) ==
    (DOMAIN file_cfg \ FieldNames) \ {"input_csv"}

\* sorted(keys), for the keys a configuration of the model can hold.
KeyOrder == <<"another_bad", "input_csv", "n_cols", "output_image",
              "sort_by", "transparent", "unknown_key">>
InKeys(S) == LET Among(k) == k \in S IN SelectSeq(KeyOrder, Among)

\* warnings.warn(f"Unknown config key ignored: '{key}'", UserWarning)
Warn(key) == [category |-> "UserWarning", said |-> "Unknown config key ignored",
              key |-> key]

\* GridConfig.from_cli_and_config(cli_values, file_config): the warnings, in
\* the order given, and the instance.  A dict maps a key to None or a value.
from_cli_and_config(cli_values, file_cfg) ==
    LET sorted == InKeys(UnknownKeys(file_cfg))
    IN  [warnings |-> [n \in DOMAIN sorted |-> Warn(sorted[n])],
         config |->
            [f \in FieldNames |->
                LET cli_val == Get(cli_values, f, None)
                    config_val == Get(file_cfg, f, None)
                IN  IF cli_val # None
                    THEN Some(CoerceValue(f, Val(cli_val)))
                    ELSE IF config_val # None
                    THEN Some(CoerceValue(f, Val(config_val)))
                    ELSE GridConfigDefaults[f]]]

\* A dict from a record of choices: "absent" leaves the key out.
DictOf(ch) == [k \in {x \in DOMAIN ch : ch[x] # "absent"} |-> ch[k]]

\* cli_values: None means "not provided by user".
CliValues ==
    {DictOf(ch) : ch \in
        [n_cols : {"absent", None, Some(4)},
         output_image : {"absent", None, Some(PathValue("cli.png"))},
         transparent : {"absent", None, Some(TRUE)}]}

\* file_config: a JSON object; a null is None.
FileConfigs ==
    {DictOf(ch) : ch \in
        [n_cols : {"absent", None, Some(3)},
         output_image : {"absent", None, Some(StrValue("custom.png"))},
         sort_by : {"absent", None, Some("SMILES")},
         transparent : {"absent", None, Some(TRUE)},
         input_csv : {"absent", Some(StrValue("in.csv"))},
         unknown_key : {"absent", None, Some("value")},
         another_bad : {"absent", Some(42)}]}

\* GridConfig(...) built directly: each optional display field and the flag.
DirectConfigs ==
    {[f \in FieldNames |-> IF f \in DOMAIN ch THEN ch[f]
                           ELSE GridConfigDefaults[f]] : ch \in
        [sort_by : {None, Some("SMILES")},
         remove_hs : {None, Some(TRUE)},
         use_coords : {None, Some(FALSE)},
         coord_gen : {None, Some(TRUE)},
         border : {None, Some("1px solid")},
         gap : {None, Some(0)},
         fontfamily : {None, Some("Arial")},
         text_align : {None, Some("center")},
         transparent : {Some(FALSE), Some(TRUE)}]}

InitConfig ==
    /\ entry = "unit" /\ pc = "call" /\ fs = {}
    /\ \/ \E cv \in CliValues, fc \in FileConfigs :
             unit = [fn |-> "from_cli_and_config",
                     args |-> [cli_values |-> cv, file_config |-> fc],
                     out |-> <<>>, done |-> FALSE]
       \/ \E c \in DirectConfigs :
             unit = [fn |-> "GridConfig", args |-> <<>>,
                     out |-> [warnings |-> <<>>, config |-> c],
                     done |-> TRUE]
    /\ AtRest

\* The call of from_cli_and_config.
FromCliAndConfig ==
    /\ entry = "unit" /\ unit.fn = "from_cli_and_config" /\ ~unit.done
    /\ unit' = [unit EXCEPT
                  !.out = from_cli_and_config(unit.args.cli_values,
                                              unit.args.file_config),
                  !.done = TRUE]
    /\ pc' = "returned"
    /\ UNCHANGED <<entry, cli, file_config, final, df, loop, calls, yields,
                   fs, dirs, tmp, faults, exit_code, err, echoed, step>>

\* The call of to_grid_kwargs on the instance.
ToGridKwargs ==
    /\ entry = "unit" /\ unit.fn \in {"from_cli_and_config", "GridConfig"}
    /\ unit.done
    /\ unit' = [fn |-> "to_grid_kwargs", args |-> unit.out.config,
                out |-> to_grid_kwargs(unit.out.config), done |-> TRUE]
    /\ pc' = "returned"
    /\ UNCHANGED <<entry, cli, file_config, final, df, loop, calls, yields,
                   fs, dirs, tmp, faults, exit_code, err, echoed, step>>

NextConfig ==
    \/ FromCliAndConfig
    \/ ToGridKwargs

SpecConfig == InitConfig /\ [][NextConfig]_vars

\* --------------------------------------------- capture_element_screenshot
\* The function called on its own, on a disk where the HTML file is there or
\* not and an image of an earlier run is at the output path or not.
HtmlFiles == {[kind |-> "html", rows |-> r, css |-> c] :
              r \in {<<1>>, <<1, 2>>}, c \in {DefaultCss, TransparentCss}}
OldImage == [kind |-> "png", rows |-> <<>>, css |-> "old"]

InitCapture ==
    /\ entry = "unit" /\ pc = "call"
    /\ \E h \in {OutHtml, CfgHtml, TempPath(1)},
          img \in {ResultPng, GridPng, CfgPng},
          there \in BOOLEAN, old \in BOOLEAN, c \in HtmlFiles :
          /\ fs = (IF there THEN {[path |-> Resolve(h), content |-> c]}
                   ELSE {})
                  \cup (IF old THEN {[path |-> Resolve(img),
                                      content |-> OldImage]}
                        ELSE {})
          /\ unit = [fn |-> "capture_element_screenshot",
                     args |-> [html_file_path |-> h,
                               output_image_path |-> img, disk |-> fs],
                     out |-> <<>>, done |-> FALSE]
    /\ AtRest

\* The call, with what the browser finds.
Capture ==
    /\ entry = "unit" /\ unit.fn = "capture_element_screenshot"
    /\ ~unit.done
    /\ \E cap \in {"ok", "element_not_found", "browser_fail"} :
       LET r == capture_element_screenshot(fs, unit.args.html_file_path,
                                           unit.args.output_image_path, cap)
       IN  /\ fs' = r.fs
           /\ unit' = [unit EXCEPT
                  !.out = [status |-> r.status, result |-> r.result,
                           browser |-> r.browser, found |-> cap,
                           said |-> PageSaid([status |-> r.status])],
                  !.done = TRUE]
    /\ pc' = "returned"
    /\ UNCHANGED <<entry, cli, file_config, final, df, loop, calls, yields,
                   dirs, tmp, faults, exit_code, err, echoed, step>>

SpecCapture == InitCapture /\ [][Capture]_vars

\* ================================================================ claims
\* Vocabulary of the properties below, stated without the code's formulas.

Started == df # NoDf
Completed == \/ entry = "main" /\ pc = "exit" /\ exit_code = 0
             \/ entry = "api" /\ pc = "finished"
TotalRows == Len(df.rows)
PageSize == final.n_items_per_page
Positive(n) == n # None /\ Val(n) >= 1
EffectivePageSize == IF Positive(PageSize) THEN Val(PageSize) ELSE TotalRows
\* k = ceiling(a / b), for b >= 1
IsCeiling(k, a, b) == k * b >= a /\ (k - 1) * b < a
\* w = the number of decimal digits of n >= 1
RECURSIVE Pow10(_)
Pow10(w) == IF w = 0 THEN 1 ELSE 10 * Pow10(w - 1)
IsDigitCount(w, n) == w >= 1 /\ Pow10(w - 1) <= n /\ n < Pow10(w)
IsDigit(ch) == \E v \in 1..10 : DigitChars[v] = ch
DigitValue(ch) == (CHOOSE v \in 1..10 : DigitChars[v] = ch) - 1
RECURSIVE DecValue(_)
DecValue(d) == IF d = <<>> THEN 0
               ELSE 10 * DecValue(SubSeq(d, 1, Len(d) - 1))
                    + DigitValue(d[Len(d)])
RECURSIVE Concat(_)
Concat(ss) == IF ss = <<>> THEN <<>> ELSE Head(ss) \o Concat(Tail(ss))
PageRows == [k \in 1..Len(calls) |-> calls[k].rows]
LastCall == calls[Len(calls)]

\* C1 (as claimed): every parameter main resolves is the CLI value when the
\* CLI gave one, else the configuration file's value when the key is there,
\* else the built-in default; an option left off the command line never
\* shadows the file.  For the --transparent flag, "given" is "switched on".
Claimed(c, g, default) ==
    IF c # None THEN Val(c) ELSE IF g # None THEN Val(g) ELSE default
C1_CliThenConfigThenDefault ==
    (entry = "main" /\ pc = "load") =>
        LET g == file_config.obj IN
        /\ final.input_csv = IF cli.input_csv # None THEN cli.input_csv
                             ELSE g.input_csv
        /\ final.output_dir = IF cli.output_dir # None THEN cli.output_dir
                              ELSE g.output_dir
        /\ LET img == Claimed(cli.output_image, g.output_image, ResultPng)
           IN  /\ final.output_image.stem = img.stem
               /\ final.output_image.suffix = img.suffix
               /\ final.output_dir = None => final.output_image = img
        /\ final.output_html = IF cli.output_html # None THEN cli.output_html
                               ELSE g.output_html
        /\ final.smiles_col = Claimed(cli.smiles_col, g.smiles_col, "smiles")
        /\ final.n_items_per_page =
              IF cli.n_items_per_page # None THEN cli.n_items_per_page
              ELSE g.n_items_per_page
        /\ final.transparent =
              Claimed(IF cli.transparent THEN Some(TRUE) ELSE None,
                      g.transparent, FALSE)

\* C2: on a table of at least one row, a run that goes through produces
\* ceiling(total_rows / effective page size) pages, the effective page size
\* being the page size when it is a positive integer and total_rows
\* otherwise; so no page size, one <= 0 or one >= total_rows gives one page.
C2_PageCount ==
    (Started /\ TotalRows >= 1) =>
        /\ pc \in {"pages", "suspended", "finished", "raised"} =>
              IsCeiling(loop.num_chunks, TotalRows, EffectivePageSize)
        /\ Completed =>
              /\ IsCeiling(Len(calls), TotalRows, EffectivePageSize)
              /\ (PageSize = None \/ Val(PageSize) <= 0
                  \/ Val(PageSize) >= TotalRows) => Len(calls) = 1
C2_Witness ==
    /\ entry = "main" /\ pc = "exit" /\ exit_code = 0
    /\ TotalRows = 7 /\ PageSize = Some(3) /\ Len(calls) = 3

\* C3: with more than one page, page i goes to stem + "_" + i zero-padded to
\* the number of digits of the page count + suffix, in the output path's
\* directory, and the page paths of a run are pairwise distinct; with one
\* page the output path is used as it is.  A page that went through has its
\* image at that path.
C3_PagePaths ==
    \A k \in 1..Len(calls) :
        LET c == calls[k]
            out == final.output_image
            tag == SubSeq(c.path.stem, Len(out.stem) + 2, Len(c.path.stem))
        IN  /\ IF loop.num_chunks > 1
               THEN /\ c.path.dir = out.dir
                    /\ c.path.suffix = out.suffix
                    /\ Len(c.path.stem) > Len(out.stem) + 1
                    /\ SubSeq(c.path.stem, 1, Len(out.stem) + 1)
                          = out.stem \o <<"_">>
                    /\ \A j \in 1..Len(tag) : IsDigit(tag[j])
                    /\ IsDigitCount(Len(tag), loop.num_chunks)
                    /\ DecValue(tag) = k
                    /\ \A m \in 1..Len(calls) :
                          m # k => calls[m].path # c.path
               ELSE c.path = out
            /\ c.status = "ok" =>
                  /\ Exists(fs, Resolve(c.path))
                  /\ Content(fs, Resolve(c.path)).kind = "png"
                  /\ Content(fs, Resolve(c.path)).rows = c.rows
C3_Witness ==
    /\ Len(calls) = 10 /\ loop.num_chunks = 10 /\ LastCall.status = "ok"
    /\ calls[1].path.stem = final.output_image.stem \o <<"_", "0", "1">>
    /\ LastCall.path.stem = final.output_image.stem \o <<"_", "1", "0">>

\* C4: the pages' row slices, put end to end in page order, are the table in
\* its order: the 0-based page n holds the rows [n*size, min((n+1)*size,
\* total)), and every row is in one page and in one only.
C4_RowSlices ==
    LET size == EffectivePageSize
        got == Concat(PageRows)
    IN  /\ \A k \in 1..Len(calls) :
              LET lo == (k - 1) * size
                  hi == Min(k * size, TotalRows)
              IN  /\ Len(calls[k].rows) = hi - lo
                  /\ \A j \in 1..(hi - lo) : calls[k].rows[j] = df.rows[lo + j]
        /\ got = SubSeq(df.rows, 1, Len(got))
        /\ Completed => got = df.rows
        /\ \A a, b \in 1..Len(calls) : \A x \in 1..Len(calls[a].rows) :
              \A y \in 1..Len(calls[b].rows) :
                 calls[a].rows[x] = calls[b].rows[y] => (a = b /\ x = y)
C4_Witness ==
    /\ entry = "api" /\ pc = "finished" /\ TotalRows = 7
    /\ PageSize = Some(3) /\ Len(calls) = 3
    /\ calls[3].rows = <<7>>

\* C5 (as claimed): on a table with a header and no rows, whatever the page
\* size, the command ends with exit code 0 after a "no data rows" warning,
\* hands no page to the generator and writes nothing; generate_grid_images
\* on an empty table yields nothing.
C5_EmptyTableCleanExit ==
    /\ (entry = "main" /\ Started /\ TotalRows = 0) =>
          /\ calls = <<>> /\ fs = {}
          /\ pc = "exit" => (exit_code = 0 /\ "no data rows" \in echoed)
    /\ (entry = "api" /\ TotalRows = 0) => (calls = <<>> /\ yields = <<>>)

\* C6 (as claimed): transparent=true in the configuration file alone, the
\* --transparent flag not given, reaches page generation as transparent=True.
C6_TransparentFromConfig ==
    (/\ entry = "main" /\ ~cli.transparent
     /\ file_config.kind = "object"
     /\ file_config.obj.transparent = Some(TRUE)) =>
        \A k \in 1..Len(calls) : calls[k].transparent

\* C7 (as claimed): a configuration file that is named and missing, or does
\* not parse as JSON, or is not a JSON object, ends the command with a
\* reported configuration error and exit code 1 (for bad JSON the message
\* says "invalid json"); the table is not loaded and no page is generated.
C7_ConfigErrors ==
    (/\ entry = "main" /\ cli.config
     /\ file_config.kind \in {"missing", "malformed", "nonobject"}) =>
        /\ pc \in {"resolve", "exit"}
        /\ ~Started /\ calls = <<>>
        /\ pc = "exit" =>
              /\ exit_code = 1
              /\ err.type = "Exit" /\ "error" \in echoed
              /\ file_config.kind = "malformed" => "invalid json" \in err.said

\* C8 (as claimed): a table with rows that lacks the structure column ends
\* the command with exit code 1 before any page is generated, the message
\* naming the column and listing the "available columns".
C8_MissingColumn ==
    (/\ entry = "main" /\ Started /\ TotalRows >= 1
     /\ final.smiles_col \notin df.columns) =>
        /\ calls = <<>>
        /\ pc \in {"pages", "exit"}
        /\ pc = "exit" =>
              /\ exit_code = 1
              /\ final.smiles_col \in err.said
              /\ "available columns" \in err.said

\* C9 (as claimed): with no intermediate HTML path, the temporary HTML file
\* of a call is gone once the call has exited, however it exited, unless the
\* unlink itself failed; and a failed unlink leaves the call's own outcome
\* as it was.
C9_TempFileRemoved ==
    \A k \in 1..Len(calls) :
        LET c == calls[k] IN
        (c.html_path = None /\ c.temp # None) =>
            /\ c.unlink # "oserror" => ~Exists(fs, Val(c.temp))
            /\ c.unlink = "oserror" =>
                  /\ c.status \in {"ok", "RuntimeError", "PlaywrightError"}
                  /\ c.status = "ok" => c.result = Some(Resolve(c.path))

\* C10: with an intermediate HTML path, once the capture has been attempted
\* (it went through or it failed) the file exists, holds the page's HTML as
\* rendered, and stays on disk: the cleanup never removes it.
CaptureAttempted(c) == c.status \in {"ok", "RuntimeError", "PlaywrightError"}
C10_HtmlKept ==
    /\ \A k \in 1..Len(calls) :
          (calls[k].html_path # None /\ CaptureAttempted(calls[k])) =>
              Exists(fs, Resolve(Val(calls[k].html_path)))
    /\ (calls # <<>> /\ LastCall.html_path # None
        /\ CaptureAttempted(LastCall)) =>
          Content(fs, Resolve(Val(LastCall.html_path))) = LastCall.html
C10_Witness ==
    /\ Len(calls) = 2 /\ LastCall.html_path # None
    /\ LastCall.status = "RuntimeError"
    /\ calls[1].html # LastCall.html
    /\ Content(fs, Resolve(Val(LastCall.html_path))) = LastCall.html

\* C11 (as claimed): whatever keywords the caller gives generate_grid_image,
\* the renderer is called with template "static", prerender True and useSVG
\* True, and every other keyword the caller gave reaches it with the value
\* the caller gave.
Forced == {"template", "prerender", "useSVG"}
Displayed == entry = "unit" /\ unit.fn = "generate_grid_image" /\ unit.done
C11_AllOthersForwarded ==
    Displayed =>
        /\ unit.out.status = "called"
        /\ unit.out.kwargs["template"] = "static"
        /\ unit.out.kwargs["prerender"] = TRUE
        /\ unit.out.kwargs["useSVG"] = TRUE
        /\ \A k \in DOMAIN unit.args \ Forced :
              /\ k \in DOMAIN unit.out.kwargs
              /\ unit.out.kwargs[k] = unit.args[k]

\* C11 (amended): whenever the renderer is called, it is called with
\* template "static", prerender True and useSVG True, whatever the caller
\* gave for them; 'transparent' is consumed and never reaches the renderer;
\* every other caller keyword reaches it with the caller's value, but for
\* MolDrawOptions under transparency, which arrives with clearBackground
\* False and otherwise as given.  The renderer is not called exactly when
\* the caller names a keyword generate_grid_image passes by itself (size).
C11_ForcedKeywords ==
    Displayed =>
        /\ unit.out.status = "called" <=> DOMAIN unit.args \cap DisplayNames = {}
        /\ unit.out.status = "called" =>
              /\ unit.out.kwargs["template"] = "static"
              /\ unit.out.kwargs["prerender"] = TRUE
              /\ unit.out.kwargs["useSVG"] = TRUE
              /\ "transparent" \notin DOMAIN unit.out.kwargs
              /\ \A k \in DOMAIN unit.args \ (Forced \cup {"transparent"}) :
                    /\ k \in DOMAIN unit.out.kwargs
                    /\ IF k = "MolDrawOptions"
                          /\ "transparent" \in DOMAIN unit.args
                          /\ unit.args["transparent"]
                       THEN /\ ~unit.out.kwargs[k].clearBackground
                            /\ unit.out.kwargs[k].origin = unit.args[k].origin
                       ELSE unit.out.kwargs[k] = unit.args[k]
C11_Witness ==
    /\ Displayed /\ unit.out.status = "called"
    /\ DOMAIN unit.args = {"template", "prerender", "useSVG", "sort_by",
                           "border", "MolDrawOptions", "transparent"}
    /\ unit.args["template"] = "interactive" /\ unit.args["transparent"]
    /\ unit.out.kwargs["template"] = "static"
    /\ unit.out.kwargs["sort_by"] = "SMILES"

\* C12: when the generation of page k fails (the renderer, the HTML write or
\* the capture), the run ends there with that very error: page k was tried
\* once, every page before it went through and its image is still on disk
\* with its own rows, and no page after k is ever started, so a failed page
\* is always the last one of its run.
Failed(c) == c.status # "ok"
ImageKept(c) == /\ Exists(fs, Resolve(c.path))
                /\ Content(fs, Resolve(c.path)).kind = "png"
                /\ Content(fs, Resolve(c.path)).rows = c.rows
C12_FailureAborts ==
    /\ \A k \in 1..Len(calls) : calls[k].page = k
    /\ \A k \in 1..(Len(calls) - 1) : ~Failed(calls[k]) /\ ImageKept(calls[k])
    /\ (calls # <<>> /\ Failed(LastCall)) =>
          /\ pc = IF entry = "main" THEN "exit" ELSE "raised"
          /\ err.type = LastCall.status
          /\ entry = "main" => exit_code = 1
          /\ yields = <<>> \/ Len(yields) = Len(calls) - 1
C12_Witness ==
    /\ entry = "api" /\ pc = "raised" /\ loop.num_chunks > 3
    /\ Len(calls) = 3 /\ LastCall.status = "RuntimeError"
    /\ err.type = "RuntimeError"
    /\ ImageKept(calls[1]) /\ ImageKept(calls[2])

\* C13: generate_grid_images is lazy, finite and starts afresh on every
\* call.  Within one call: no page is begun before it is requested (the page
\* in progress is the one of the current request, and as many images are on
\* disk as pages went through); pages come in the order 1..N, each from the
\* table's next rows; a consumer that has taken j elements and stops has
\* caused j pages and no more; the generator ends after N = ceiling(rows /
\* page size) elements.  A later call starts at page 1 whatever page the
\* earlier one had reached.
PagesBegun == Len(calls) + IF step.at # "idle" THEN 1 ELSE 0
NumPages == IF TotalRows = 0 THEN 0
            ELSE CHOOSE k \in 1..TotalRows :
                    IsCeiling(k, TotalRows, EffectivePageSize)
PngFiles == {e \in fs : e.content.kind = "png"}
C13_LazyGenerator ==
    entry = "steps" =>
        /\ PagesBegun <= step.requests
        /\ step.at # "idle" => (pc = "running" /\ step.page = step.requests)
        /\ \A k \in 1..Len(calls) :
              /\ calls[k].page = k
              /\ calls[k].rows # <<>>
              /\ calls[k].rows[1] = df.rows[(k - 1) * EffectivePageSize + 1]
        /\ \A k \in 1..Len(yields) :
              /\ yields[k][1] = k
              /\ calls[k].status = "ok" /\ yields[k][2] = calls[k].result
        /\ pc \in {"suspended", "closed"} =>
              /\ Len(calls) = Len(yields)
              /\ step.requests = Len(yields)
        /\ pc = "finished" =>
              /\ Len(yields) = NumPages
              /\ step.requests = NumPages + 1
        /\ Len(calls) <= NumPages
        /\ step.call = 1 =>
              Cardinality(PngFiles) =
                 Len(yields) + IF step.at = "finally" /\ step.status = "ok"
                               THEN 1 ELSE 0
C13_Witness ==
    /\ entry = "steps" /\ step.call = MaxCalls /\ pc = "closed"
    /\ NumPages = StepRows /\ Len(yields) = 1 /\ yields[1][1] = 1
    /\ Cardinality(PngFiles) = StepRows

\* C14: with an output directory (from the command line, else from the
\* configuration file) the output image is that directory plus the file name
\* alone of the configured image, and the directory and its parents exist
\* from before the page loop on, so every page path lies in it; with no
\* output directory the configured image path is used as it is and the
\* command makes no directory.
ParamsResolved == entry = "main" /\ (pc \in {"load", "pages"} \/ Started)
C14_OutputDir ==
    ParamsResolved =>
        LET g == file_config.obj
            img == Claimed(cli.output_image, g.output_image, ResultPng)
            od == IF cli.output_dir # None THEN cli.output_dir
                  ELSE g.output_dir
        IN  IF od # None
            THEN /\ final.output_image = MkPath(Val(od), img.stem, img.suffix)
                 /\ \A n \in 1..Len(Val(od)) : SubSeq(Val(od), 1, n) \in dirs
                 /\ \A k \in 1..Len(calls) : calls[k].path.dir = Val(od)
            ELSE /\ final.output_image = img
                 /\ dirs = {}
                 /\ \A k \in 1..Len(calls) : calls[k].path.dir = img.dir
C14_Witness ==
    /\ entry = "main" /\ loop.num_chunks > 1 /\ calls # <<>>
    /\ cli.output_image = Some(GridPng) /\ cli.output_dir = Some(OutDir)
    /\ GridPng.dir # <<>> /\ final.output_image.dir = OutDir
    /\ calls[1].path.dir = OutDir
    /\ calls[1].path.stem = GridPng.stem \o <<"_", "1">>
    /\ dirs = {<<"out">>, <<"out", "deep">>}

\* C15: for every file configuration, from_cli_and_config warns once, with a
\* UserWarning and no exception, for each key that is neither a field of the
\* settings nor input_csv, and for no other key; and the settings it returns
\* are those it returns for the same configuration without the unknown
\* keys: field by field the CLI value if given, else the file's value if
\* given, else the default, a path given as text becoming a path.
Merged == entry = "unit" /\ unit.fn = "from_cli_and_config" /\ unit.done
Given(d, f) == f \in DOMAIN d /\ d[f] # None
AsField(f, v) ==
    IF f \in {"output_image", "output_html", "output_dir"}
    THEN Some([type |-> "Path", text |-> Val(v).text])
    ELSE v
C15_UnknownKeysWarned ==
    Merged =>
        LET fc == unit.args.file_config
            cv == unit.args.cli_values
            w == unit.out.warnings
            unknown == {k \in DOMAIN fc :
                           k \notin FieldNames /\ k # "input_csv"}
            known == [k \in DOMAIN fc \ unknown |-> fc[k]]
        IN  /\ \A k \in unknown :
                  Cardinality({n \in DOMAIN w : w[n].key = k}) = 1
            /\ \A n \in DOMAIN w :
                  w[n].key \in unknown /\ w[n].category = "UserWarning"
            /\ unit.out.config = from_cli_and_config(cv, known).config
            /\ DOMAIN unit.out.config = FieldNames
            /\ \A f \in FieldNames :
                  unit.out.config[f] =
                     IF Given(cv, f) THEN AsField(f, cv[f])
                     ELSE IF Given(fc, f) THEN AsField(f, fc[f])
                     ELSE GridConfigDefaults[f]
C15_Witness ==
    /\ Merged
    /\ DOMAIN unit.args.file_config =
          {"unknown_key", "another_bad", "input_csv", "n_cols", "output_image"}
    /\ unit.args.cli_values = << >>
    /\ Len(unit.out.warnings) = 2
    /\ unit.out.warnings[1].key = "another_bad"
    /\ unit.out.config["n_cols"] = Some(3)
    /\ unit.out.config["output_image"] = Some(PathValue("custom.png"))

\* C16 (as claimed): transparency is carried from end to end.  For a page
\* that went through with transparency requested: the renderer's stylesheet
\* has the transparent-body override, the drawing options have
\* clearBackground False, no 'transparent' keyword reaches the renderer, and
\* the screenshot is taken with the background omitted; with transparency
\* not requested: the default stylesheet, the background cleared and kept in
\* the screenshot.
C16_TransparencyEndToEnd ==
    \A k \in 1..Len(calls) :
        LET c == calls[k] IN
        c.status = "ok" =>
            /\ "transparent" \notin DOMAIN c.display
            /\ IF c.transparent
               THEN /\ c.display.custom_css = TransparentCss
                    /\ ~c.display.clearBackground
                    /\ c.html.css = TransparentCss
                    /\ c.omit_background
                    /\ c.omitted
               ELSE /\ c.display.custom_css = DefaultCss
                    /\ c.display.clearBackground
                    /\ ~c.omit_background
                    /\ ~c.omitted

\* C17: capture_element_screenshot on an absent HTML file raises
\* FileNotFoundError and launches no browser; on a file in which the
\* selector matches nothing it raises RuntimeError "Element not found", a
\* different error; either way the disk is as it was, an older image at the
\* output path included; when it goes through it returns the output path
\* made absolute, and the image is there.
Captured == entry = "unit" /\ unit.fn = "capture_element_screenshot"
            /\ unit.done
IsAbsolute(p) == p.dir # <<>> /\ p.dir[1] = "/"
IsResolved(q, p) ==
    /\ IsAbsolute(q) /\ q.stem = p.stem /\ q.suffix = p.suffix
    /\ q.dir = IF IsAbsolute(p) THEN p.dir ELSE <<"/", "work">> \o p.dir
C17_CaptureErrors ==
    Captured =>
        LET a == unit.args
            r == unit.out
            there == \E e \in a.disk : IsResolved(e.path, a.html_file_path)
        IN  /\ ~there =>
                  /\ r.status = "FileNotFoundError"
                  /\ "HTML file not found" \in r.said
                  /\ ~r.browser
                  /\ fs = a.disk /\ r.result = None
            /\ (there /\ r.found = "element_not_found") =>
                  /\ r.status = "RuntimeError"
                  /\ "Element not found" \in r.said
                  /\ r.browser
                  /\ fs = a.disk /\ r.result = None
            /\ (there /\ r.found = "ok") =>
                  /\ r.status = "ok" /\ r.result # None
                  /\ IsResolved(Val(r.result), a.output_image_path)
                  /\ Exists(fs, Val(r.result))
                  /\ Content(fs, Val(r.result)).kind = "png"
                  /\ Content(fs, Val(r.result)) # OldImage
C17_Witness ==
    /\ Captured /\ unit.out.status = "FileNotFoundError"
    /\ ~unit.out.browser
    /\ unit.args.html_file_path = OutHtml
    /\ unit.args.output_image_path = GridPng
    /\ fs = {[path |-> Resolve(GridPng), content |-> OldImage]}

\* C18: to_grid_kwargs returns one entry for each of sort_by, remove_hs,
\* use_coords, coord_gen, border, gap, fontfamily, text_align that is not
\* None (False and 0 are values), under the renderer's name (removeHs for
\* remove_hs, coordGen for coord_gen, the field's own name otherwise) with
\* the field's value; transparent: True exactly when the flag is true; and
\* nothing else.
KwargsBuilt == entry = "unit" /\ unit.fn = "to_grid_kwargs" /\ unit.done
RendererNames == [sort_by |-> "sort_by", remove_hs |-> "removeHs",
                  use_coords |-> "use_coords", coord_gen |-> "coordGen",
                  border |-> "border", gap |-> "gap",
                  fontfamily |-> "fontfamily", text_align |-> "text_align"]
C18_GridKwargs ==
    KwargsBuilt =>
        LET config == unit.args
            kw == unit.out
        IN  /\ \A f \in DOMAIN RendererNames :
                  /\ RendererNames[f] \in DOMAIN kw <=> config[f] # None
                  /\ config[f] # None => kw[RendererNames[f]] = Val(config[f])
            /\ "transparent" \in DOMAIN kw <=> config["transparent"] = Some(TRUE)
            /\ "transparent" \in DOMAIN kw => kw["transparent"] = TRUE
            /\ DOMAIN kw \subseteq
                  {RendererNames[f] : f \in DOMAIN RendererNames}
                  \cup {"transparent"}
C18_Witness ==
    /\ KwargsBuilt
    /\ unit.args["use_coords"] = Some(FALSE) /\ unit.args["gap"] = Some(0)
    /\ unit.args["remove_hs"] = Some(TRUE) /\ unit.args["sort_by"] = None
    /\ unit.args["transparent"] = Some(TRUE)
    /\ DOMAIN unit.out = {"use_coords", "gap", "removeHs", "transparent"}
    /\ unit.out["use_coords"] = FALSE

\* C19 (as claimed): within a run, pages are generated strictly one at a
\* time: when a page begins, every earlier page has been rendered, written,
\* captured (or has failed), its browser session is over and its temporary
\* file is gone; so never are two temporary files on disk, or two browser
\* sessions open, at once.
TempFiles == {e \in fs : e.path.dir = <<"/", "tmp">>}
InFirstRun == entry = "steps" /\ step.call = 1
C19_NoOverlap ==
    InFirstRun =>
        /\ Cardinality(step.sessions) <= 1
        /\ Cardinality(TempFiles) <= 1
        /\ step.at = "display" => (TempFiles = {} /\ step.sessions = {})

\* C19 (amended): pages are generated strictly one at a time: the page in
\* progress is the one after those already generated, each of which has
\* ended (gone through or failed); a browser session is open only while the
\* page in progress is being captured, so two are never open at once; and
\* when a page begins, the removal of every earlier page's temporary file
\* has been attempted: a temporary file other than the one of the page in
\* progress is on disk only because its removal failed, which is swallowed
\* (one such file per failure), or because its write failed, which ended
\* that run.
OwnTemp == IF step.at \in {"launch", "shoot", "finally"} /\ step.temp # None
           THEN {Val(step.temp)} ELSE {}
C19_OneAtATime ==
    entry = "steps" =>
        /\ step.at # "idle" => step.page = Len(calls) + 1
        /\ \A k \in 1..Len(calls) :
              /\ calls[k].page = k
              /\ calls[k].status \in {"ok", "RenderError", "OSError",
                                      "RuntimeError", "PlaywrightError"}
        /\ step.sessions = IF step.at = "shoot" THEN {step.page} ELSE {}
        /\ Cardinality({e \in TempFiles : /\ e.path \notin OwnTemp
                                          /\ e.content # Partial}) = faults
        /\ \A k \in 1..Len(calls) :
              calls[k].unlink = "ok" => ~Exists(fs, Val(calls[k].temp))
        /\ (step.call = 1 /\ \E e \in TempFiles : e.content = Partial) =>
              (pc = "raised" /\ LastCall.status = "OSError")
C19_Witness ==
    /\ InFirstRun /\ step.at = "shoot" /\ step.page = 2
    /\ step.sessions = {2}
    /\ calls[1].unlink = "oserror" /\ Exists(fs, Val(calls[1].temp))
    /\ Cardinality(TempFiles) = 2

\* C20: in a run of several pages with an intermediate HTML path, every page
\* is given that same path, without a page suffix, and after each page that
\* got as far as the capture the file holds that page's HTML; once all N
\* pages are done there is one HTML file, it holds page N's HTML, and the
\* HTML of no earlier page is on disk anywhere.
SeveralPagesOneHtml == loop.num_chunks > 1 /\ final.output_html # None
C20_HtmlOverwritten ==
    SeveralPagesOneHtml =>
        LET kept == Resolve(Val(final.output_html)) IN
        /\ \A k \in 1..Len(calls) :
              /\ calls[k].html_path = final.output_html
              /\ calls[k].temp = None
              /\ \A e \in fs : e.content.kind = "html" => e.path = kept
        /\ \A j, k \in 1..Len(calls) :
              (j # k /\ calls[j].html.kind = "html"
                     /\ calls[k].html.kind = "html")
                 => calls[j].html # calls[k].html
        /\ (calls # <<>> /\ CaptureAttempted(LastCall)) =>
              /\ Content(fs, kept) = LastCall.html
              /\ \A k \in 1..(Len(calls) - 1) :
                    \A e \in fs : e.content # calls[k].html
        /\ Completed =>
              /\ Len(calls) = loop.num_chunks
              /\ Content(fs, kept).rows = calls[loop.num_chunks].rows
              /\ Cardinality({e \in fs : e.content.kind = "html"}) = 1
C20_Witness ==
    /\ SeveralPagesOneHtml /\ Completed /\ Len(calls) = 3
    /\ Content(fs, Resolve(Val(final.output_html))) = calls[3].html
    /\ calls[1].html # calls[3].html /\ calls[2].html # calls[3].html

====
